---------------------------- MODULE Spec2Model ----------------------------
(***************************************************************************)
(* Employee management API: the request handlers of                        *)
(* app/routers/employees.py running concurrently against one MongoDB       *)
(* collection that carries a unique index on employee_id, with the         *)
(* pydantic models of app/models/employee.py validating the request        *)
(* bodies, and the DatabaseManager of app/database.py that hands the       *)
(* collection to them.                                                     *)
(*                                                                         *)
(* A request handler is a coroutine: it runs without interruption between  *)
(* two awaits, and every await in the handlers is one store call.  Each    *)
(* action below is therefore one handler segment ending in (and including) *)
(* one store call, which the store executes atomically.                    *)
(*                                                                         *)
(* Strings whose characters matter (employee_id, name) are sequences of    *)
(* one-character strings; Optional values are sequences of length 0 (None) *)
(* or 1; a Python dict / BSON document is a function from its keys.        *)
(***************************************************************************)
EXTENDS Integers, Sequences, FiniteSets, TLC

VARIABLES
    store,      \* the employees collection: documents in natural (insertion) order
    req,        \* per worker: the request it is handling (arguments, locals, response)
    db_manager  \* the DatabaseManager singleton: its handles, the connect() in
                \* progress, and the history of the calls made on it

vars == <<store, req, db_manager>>

-----------------------------------------------------------------------------
(* Size of the model *)

\* Requests handled at the same time (one logical worker per inbound request).
Workers == {"w1", "w2"}

-----------------------------------------------------------------------------
(* Optional values and dicts *)

None == << >>
Some(x) == <<x>>
IsNone(o) == Len(o) = 0
Val(o) == o[1]

\* Mutant: the key is left in place.
Pop_Nothing(d, k) == d

\* dict with key k removed: d.pop(k, None)
Pop(d, k) == [x \in (DOMAIN d) \ {k} |-> d[x]]

\* Mutant: the document is replaced (replace_one, PUT semantics): only _id,
\* employee_id and the given keys survive.
DollarSet_Replace(doc, upd) ==
    [k \in ((DOMAIN doc) \cap {"_id", "employee_id"}) \cup (DOMAIN upd) |->
        IF k \in DOMAIN upd THEN upd[k] ELSE doc[k]]

\* MongoDB $set: the keys of upd are written into doc, all other keys are kept.
DollarSet(doc, upd) ==
    [k \in (DOMAIN doc) \cup (DOMAIN upd) |-> IF k \in DOMAIN upd THEN upd[k] ELSE doc[k]]

-----------------------------------------------------------------------------
(* Department enum *)

\* Mutant: the last member is missing.
Department_Nine ==
    << "Engineering", "Marketing", "Finance", "Human Resources", "Sales",
       "Operations", "Information Technology", "Legal", "Customer Service" >>

Department ==
    << "Engineering", "Marketing", "Finance", "Human Resources", "Sales",
       "Operations", "Information Technology", "Legal", "Customer Service",
       "Research and Development" >>

DepartmentValues == {Department[i] : i \in DOMAIN Department}

-----------------------------------------------------------------------------
(* Field constraints of the pydantic models *)

EmployeeIdMinLen == 1
EmployeeIdMaxLen == 50
NameMinLen == 2
NameMaxLen == 100
AgeMin == 18
AgeMax == 100
UpdateNameMinLen == 2
UpdateNameMaxLen == 100
UpdateAgeMin == 18
UpdateAgeMax == 100

\* pattern ^[A-Za-z0-9_-]+$
EmployeeIdAlphabet ==
    { "A","B","C","D","E","F","G","H","I","J","K","L","M",
      "N","O","P","Q","R","S","T","U","V","W","X","Y","Z",
      "a","b","c","d","e","f","g","h","i","j","k","l","m",
      "n","o","p","q","r","s","t","u","v","w","x","y","z",
      "0","1","2","3","4","5","6","7","8","9","_","-" }

Whitespace == {" ", "\t", "\n"}

RECURSIVE LStrip(_)
LStrip(s) == IF s # << >> /\ Head(s) \in Whitespace THEN LStrip(Tail(s)) ELSE s

RECURSIVE RStrip(_)
RStrip(s) ==
    IF s # << >> /\ s[Len(s)] \in Whitespace THEN RStrip(SubSeq(s, 1, Len(s) - 1)) ELSE s

\* Mutant: only the leading whitespace is removed, as by str.lstrip().
Strip_LeftOnly(s) == LStrip(s)

\* str.strip()
Strip(s) == RStrip(LStrip(s))

\* employee_id: Field(min_length=1, max_length=50, pattern=...)
EmployeeIdOk(v) ==
    /\ Len(v) >= EmployeeIdMinLen
    /\ Len(v) <= EmployeeIdMaxLen
    /\ \A i \in DOMAIN v : v[i] \in EmployeeIdAlphabet

\* EmployeeBase.name: the Field's length bounds are checked on the value as
\* received; validate_name (an "after" validator) then strips it and rejects
\* an empty result.
NameOk(v) ==
    /\ Len(v) >= NameMinLen
    /\ Len(v) <= NameMaxLen
    /\ Strip(v) # << >>

\* EmployeeBase.validate_name: the value the validated model holds.
validate_name(v) == Strip(v)

\* Mutant: le=100 is missing.
AgeOk_NoUpper(v) == v >= AgeMin

\* EmployeeBase.age
AgeOk(v) == v >= AgeMin /\ v <= AgeMax

\* department: Department
DepartmentOk(v) == v \in DepartmentValues

\* EmployeeCreate(**body) succeeds.
EmployeeCreateOk(raw) ==
    /\ EmployeeIdOk(raw.employee_id)
    /\ NameOk(raw.name)
    /\ AgeOk(raw.age)
    /\ DepartmentOk(raw.department)

\* The validated EmployeeCreate model (its model_dump()).
EmployeeCreate(raw) ==
    [employee_id |-> raw.employee_id,
     name        |-> validate_name(raw.name),
     age         |-> raw.age,
     department  |-> raw.department]

\* EmployeeUpdate.name: Optional, same order of checks when a value is given.
UpdateNameOk(o) ==
    IsNone(o) \/ ( /\ Len(Val(o)) >= UpdateNameMinLen
                   /\ Len(Val(o)) <= UpdateNameMaxLen
                   /\ Strip(Val(o)) # << >> )

\* EmployeeUpdate.validate_name
update_validate_name(o) == IF IsNone(o) THEN o ELSE Some(Strip(Val(o)))

UpdateAgeOk(o) == IsNone(o) \/ (Val(o) >= UpdateAgeMin /\ Val(o) <= UpdateAgeMax)

UpdateDepartmentOk(o) == IsNone(o) \/ Val(o) \in DepartmentValues

EmployeeUpdateOk(raw) ==
    /\ UpdateNameOk(raw.name)
    /\ UpdateAgeOk(raw.age)
    /\ UpdateDepartmentOk(raw.department)

\* The validated EmployeeUpdate model.
EmployeeUpdate(raw) ==
    [name       |-> update_validate_name(raw.name),
     age        |-> raw.age,
     department |-> raw.department]

UpdateKeys == {"name", "age", "department"}

\* Mutant: the default of name is a value instead of None.
FieldsOf_DefaultName(body) ==
    [k \in UpdateKeys |-> IF k \in DOMAIN body THEN body[k]
                          ELSE IF k = "name" THEN Some(<<"a", "b">>) ELSE None]

\* The fields of EmployeeUpdate as pydantic fills them from a JSON body, which
\* maps the keys it holds to null (None) or to a value: every field is
\* Optional with the default None, so a key that the body lacks gets None, and
\* a null is accepted as None.
FieldsOf(body) ==
    [k \in UpdateKeys |-> IF k \in DOMAIN body THEN body[k] ELSE None]

\* Mutant: the "is not None" test is missing, every field is written.
UpdateData_All(employee_update) == [k \in UpdateKeys |-> employee_update[k]]

\* update_employee: update_data, the non-None fields of the update model.
UpdateData(employee_update) ==
    [k \in {x \in UpdateKeys : ~IsNone(employee_update[x])} |-> Val(employee_update[k])]

-----------------------------------------------------------------------------
(* Request inputs the model draws from *)

ID1 == <<"E", "1">>
ID2 == <<"E", "2">>

\* The employee_id values requests name: path parameters of Get / Update /
\* Delete (not validated) and the valid ids of Create bodies.
PathIds == {ID1, ID2}

\* "ab", and " a ": three characters as received, one after stripping.
NameAB == <<"a", "b">>
NameA == <<" ", "a", " ">>

\* A body every field of which passes validation, used as the base of the
\* bodies that break one constraint each.
BaseBody ==
    [employee_id |-> ID1, name |-> NameAB, age |-> 18, department |-> "Engineering"]

\* Create bodies: two for the first id, one for the second, and bodies with
\* one field invalid: an empty id, an id with a character outside the pattern,
\* a blank name, a one-character name, an age below the range, an age above
\* it, a misspelt department.
CreateBodies ==
    { BaseBody,
      [BaseBody EXCEPT !.name = NameA, !.department = "Marketing"],
      [BaseBody EXCEPT !.employee_id = ID2, !.department = "Marketing"],
      [BaseBody EXCEPT !.employee_id = << >>],
      [BaseBody EXCEPT !.employee_id = <<"E", " ">>],
      [BaseBody EXCEPT !.name = <<" ", " ">>],
      [BaseBody EXCEPT !.name = <<"a">>],
      [BaseBody EXCEPT !.age = 17],
      [BaseBody EXCEPT !.age = 101],
      [BaseBody EXCEPT !.department = "Engneering"] }

NoFields == [name |-> None, age |-> None, department |-> None]

\* Update bodies: every field null, one field, two fields, all three (the
\* other fields are given as null), and bodies with one field invalid.
UpdateBodies ==
    { NoFields,
      [NoFields EXCEPT !.name = Some(NameA)],
      [NoFields EXCEPT !.department = Some("Marketing")],
      [NoFields EXCEPT !.name = Some(NameAB), !.department = Some("Engineering")],
      [name |-> Some(NameAB), age |-> Some(18), department |-> Some("Marketing")],
      [NoFields EXCEPT !.name = Some(<<" ", " ">>)],
      [NoFields EXCEPT !.name = Some(<<"a">>)],
      [NoFields EXCEPT !.age = Some(17)],
      [NoFields EXCEPT !.age = Some(101)],
      [NoFields EXCEPT !.department = Some("Engneering")] }

\* List queries (page, limit, department): a window of two records, the
\* second page of windows of one, a filter, and queries with one parameter
\* invalid.
NoQuery == [page |-> 1, limit |-> 1, department |-> None]

ListQueries ==
    { [NoQuery EXCEPT !.limit = 2],
      [NoQuery EXCEPT !.page = 2],
      [NoQuery EXCEPT !.limit = 2, !.department = Some("Marketing")],
      [NoQuery EXCEPT !.page = 0],
      [NoQuery EXCEPT !.limit = 0],
      [NoQuery EXCEPT !.limit = 101],
      [NoQuery EXCEPT !.department = Some("Engneering")] }

\* Update requests target the first id; the second id's record is the
\* bystander of the updates.
UpdateIds == {ID1}

-----------------------------------------------------------------------------
(* The collection (MongoDB), as the handlers use it *)

\* Mutant: the filter is ignored, as by find_one({}).
FirstMatch_NoFilter(coll, id) == IF coll = << >> THEN 0 ELSE 1

\* Index of the first document with this employee_id, 0 when there is none.
FirstMatch(coll, id) ==
    IF \E i \in DOMAIN coll : coll[i].employee_id = id
    THEN CHOOSE i \in DOMAIN coll :
            /\ coll[i].employee_id = id
            /\ \A j \in DOMAIN coll : coll[j].employee_id = id => i <= j
    ELSE 0

\* find_one({"employee_id": id}): the document, or None.
find_one(coll, id) ==
    IF FirstMatch(coll, id) = 0 THEN None ELSE Some(coll[FirstMatch(coll, id)])

\* Mutant: the projection is forgotten.
Project_Nothing(doc) == doc

\* The projection {"_id": 0}.
Project(doc) == Pop(doc, "_id")

\* Mutant: the index is unique over all documents, whatever their id.
DuplicateKeyError_AnyDocument(coll, doc) == coll # << >>

\* Mutant: the collection has no unique index.
DuplicateKeyError_NoIndex(coll, doc) == FALSE

\* The unique index on employee_id (created by DatabaseManager.connect):
\* an insert of doc is rejected with DuplicateKeyError.
DuplicateKeyError(coll, doc) ==
    \E i \in DOMAIN coll : coll[i].employee_id = doc.employee_id

\* The ObjectId of a new document.  ObjectIds are opaque to the handlers and
\* unique in the collection (the _id index): the model hands out the smallest
\* number that no stored document carries.
NewOid(coll) ==
    CHOOSE n \in 1 .. (Len(coll) + 1) :
        /\ \A i \in DOMAIN coll : coll[i]["_id"] # n
        /\ \A m \in 1 .. (n - 1) : \E i \in DOMAIN coll : coll[i]["_id"] = m

\* insert_one(doc) when the index accepts it: the driver adds _id to the dict.
WithOid(doc, oid) ==
    [k \in (DOMAIN doc) \cup {"_id"} |-> IF k = "_id" THEN oid ELSE doc[k]]

\* Mutant: the document is stored although the index rejects it.
insert_one_Unchecked(coll, doc) == Append(coll, WithOid(doc, NewOid(coll)))

\* The collection after insert_one(doc): the document is appended unless the
\* index rejects it.
insert_one(coll, doc) ==
    IF DuplicateKeyError(coll, doc) THEN coll
    ELSE Append(coll, WithOid(doc, NewOid(coll)))

\* Mutant: update_one(..., upsert=True) inserts the filter's and the update's
\* fields when nothing matches.
update_one_Upsert(coll, id, upd) ==
    IF FirstMatch(coll, id) = 0
    THEN Append(coll, WithOid(DollarSet([employee_id |-> id], upd), NewOid(coll)))
    ELSE [i \in DOMAIN coll |->
            IF i = FirstMatch(coll, id) THEN DollarSet(coll[i], upd) ELSE coll[i]]

\* update_one({"employee_id": id}, {"$set": upd}): no upsert, so a filter that
\* matches nothing changes nothing.
update_one(coll, id, upd) ==
    [i \in DOMAIN coll |->
        IF i = FirstMatch(coll, id) THEN DollarSet(coll[i], upd) ELSE coll[i]]

\* Mutant: delete_one({}) removes the first document whatever its id.
delete_one_NoFilter(coll, id) == Tail(coll)

\* delete_one({"employee_id": id}): the collection without the first match.
delete_one(coll, id) ==
    IF FirstMatch(coll, id) = 0 THEN coll
    ELSE SubSeq(coll, 1, FirstMatch(coll, id) - 1)
            \o SubSeq(coll, FirstMatch(coll, id) + 1, Len(coll))

\* Mutant: the driver reports one deleted document whatever happened.
deleted_count_Always(coll, id) == 1

\* delete_one(...).deleted_count
deleted_count(coll, id) == IF FirstMatch(coll, id) = 0 THEN 0 ELSE 1

\* query_filter: {} or {"department": value}
MatchesFilter(doc, department) ==
    IsNone(department) \/ doc.department = Val(department)

RECURSIVE SelectSeq2(_, _)
SelectSeq2(coll, department) ==
    IF coll = << >> THEN << >>
    ELSE IF MatchesFilter(Head(coll), department)
         THEN <<Head(coll)>> \o SelectSeq2(Tail(coll), department)
         ELSE SelectSeq2(Tail(coll), department)

\* Mutant: the filter is ignored, as by count_documents({}).
count_documents_All(coll, department) == Len(coll)

\* count_documents(query_filter)
count_documents(coll, department) == Len(SelectSeq2(coll, department))

\* Mutant: .skip(skip) is missing, every page is the first one.
find_NoSkip(coll, department, skip, limit) ==
    LET all == SelectSeq2(coll, department)
    IN  [i \in 1 .. (IF limit < Len(all) THEN limit ELSE Len(all)) |-> Project(all[i])]

\* find(query_filter, {"_id": 0}).skip(skip).limit(limit), to_list(length=limit)
find(coll, department, skip, limit) ==
    LET all == SelectSeq2(coll, department)
        last == IF skip + limit < Len(all) THEN skip + limit ELSE Len(all)
    IN  [i \in 1 .. (IF last > skip THEN last - skip ELSE 0) |-> Project(all[skip + i])]

EmployeeKeys == {"employee_id", "name", "age", "department"}

\* EmployeeResponse(**employee) validates: the four fields are there and the
\* department is one of the enum's values.
EmployeeResponseOk(doc) ==
    /\ DOMAIN doc = EmployeeKeys
    /\ doc.department \in DepartmentValues

-----------------------------------------------------------------------------
(* DatabaseManager *)

\* DatabaseManager.__init__: no handle, no call made yet.
NewManager ==
    [client     |-> None,
     database   |-> None,
     collection |-> None,
     pc         |-> "idle",    \* where the connect() in progress stands
     log        |-> << >>]     \* history: the calls made on the manager, each
                               \* connect() with its start and its outcome

\* The handles connect() assigns before its first await.
WithHandles(m) ==
    [m EXCEPT !.client = Some("AsyncIOMotorClient"),
              !.database = Some("database"),
              !.collection = Some("collection")]

\* The manager once the lifespan's connect() has returned.
ConnectedManager ==
    [WithHandles(NewManager) EXCEPT !.log = <<"connect", "connect_ok">>]

Logged(m, event) == [m EXCEPT !.log = Append(@, event)]

\* Mutant: get_collection() hands out whatever the attribute holds.
GetCollectionRaises_Never(m) == FALSE

\* get_collection(): raises RuntimeError when self.collection is None.
GetCollectionRaises(m) == IsNone(m.collection)

-----------------------------------------------------------------------------
(* Requests *)

IdleReq ==
    [op              |-> "none",
     pc              |-> "idle",
     employee_id     |-> << >>,   \* path parameter, or the body's employee_id (Create)
     employee        |-> None,    \* Create: the validated model's dict
     employee_update |-> None,    \* Update: the validated EmployeeUpdate
     page            |-> 0,
     limit           |-> 0,
     department      |-> None,    \* List: the department filter
     total_count     |-> 0,
     status          |-> 0,       \* HTTP status of the response, 0 while there is none
     kind            |-> "",      \* the outcome's name
     data            |-> << >>,   \* the records the response carries
     calls           |-> << >>,   \* history: the store calls issued so far
     failed          |-> FALSE,   \* history: a store call of this request raised
     absent0         |-> FALSE,   \* history: Create found no such id stored when it started
     touched         |-> FALSE,   \* history: another request changed this id's record
                                  \* since this request started or last changed it
     wrote           |-> FALSE,   \* history: a store call of this request changed
                                  \* the store
     nulls           |-> {},      \* history: the keys the Update body gave as null
     rivals          |-> {}]      \* history: workers whose Create of the same id ran
                                  \* alongside this Create

InFlight(r) == r.pc \notin {"idle", "done"}

\* The handler returns or raises: the response.
Respond(r, status, kind, data) ==
    [r EXCEPT !.pc = "done", !.status = status, !.kind = kind, !.data = data,
              !.employee = None, !.employee_update = None, !.department = None]

Called(r, call) == [r EXCEPT !.calls = Append(@, call)]

\* Mutant: the failed call is issued a second time before the handler gives up.
StoreFailure_Retry(r, call) ==
    Respond([Called(Called(r, call), call) EXCEPT !.failed = TRUE],
            500, "InternalError", << >>)

\* Mutant: the handler takes the failed call for a read that found nothing.
StoreFailure_NotFound(r, call) ==
    Respond([Called(r, call) EXCEPT !.failed = TRUE], 404, "NotFound", << >>)

\* except Exception: a store call raised, HTTP 500.
StoreFailure(r, call) ==
    Respond([Called(r, call) EXCEPT !.failed = TRUE], 500, "InternalError", << >>)

\* FastAPI rejects the request before the handler runs: HTTP 422.
Rejected(op) ==
    [IdleReq EXCEPT !.op = op, !.pc = "done", !.status = 422, !.kind = "ValidationError"]

\* Two Creates of the same employee_id.
Rival(r, q) == r.op = "create" /\ q.op = "create" /\ r.employee_id = q.employee_id

\* A request of worker w enters its handler: a Create runs alongside every
\* Create of the same id now in flight.
Enter(w, r) ==
    [v \in Workers |->
        IF v = w
        THEN [r EXCEPT !.rivals = {u \in Workers \ {w} : InFlight(req[u]) /\ Rival(r, req[u])}]
        ELSE IF InFlight(req[v]) /\ Rival(r, req[v]) THEN [req[v] EXCEPT !.rivals = @ \cup {w}]
        ELSE req[v]]

\* The requests whose record keeps track of later changes to their id: those
\* in flight, and the Creates and Deletes that succeeded.
Tracked(r) ==
    \/ InFlight(r)
    \/ r.pc = "done" /\ r.op \in {"create", "delete"} /\ r.status \in {200, 201}

\* Worker w's request becomes r in a step that changed the document(s) of id.
Wrote(w, r, id) ==
    [v \in Workers |->
        IF v = w THEN [r EXCEPT !.touched = FALSE, !.wrote = TRUE]
        ELSE IF Tracked(req[v]) /\ req[v].employee_id = id
             THEN [req[v] EXCEPT !.touched = TRUE]
        ELSE req[v]]

\* Worker w is free for a request, and Depends(get_database) hands the
\* collection to the handler.
CanStart(w) ==
    /\ req[w].pc \in {"idle", "done"}
    /\ ~GetCollectionRaises(db_manager)

-----------------------------------------------------------------------------
(* Initial state: the lifespan has connected (the unique index exists), the  *)
(* collection is empty and no request is being handled.                      *)

Init ==
    /\ store = << >>
    /\ req = [w \in Workers |-> IdleReq]
    /\ db_manager = ConnectedManager

-----------------------------------------------------------------------------
(* create_employee: POST /employees *)

CreateStart(w, raw) ==
    /\ CanStart(w)
    /\ UNCHANGED db_manager
    /\ req' = IF EmployeeCreateOk(raw)
              THEN Enter(w, [IdleReq EXCEPT !.op = "create", !.pc = "insert",
                                            !.employee_id = raw.employee_id,
                                            !.employee = Some(EmployeeCreate(raw)),
                                            !.absent0 =
                                                IsNone(find_one(store, raw.employee_id))])
              ELSE [req EXCEPT ![w] = Rejected("create")]
    /\ UNCHANGED store

\* await db.insert_one(employee_dict) and the rest of the handler
CreateInsert(w) ==
    LET r == Called(req[w], "insert_one")
        employee_dict == Val(req[w].employee)
        inserted == WithOid(employee_dict, NewOid(store))
    IN  /\ req[w].op = "create" /\ req[w].pc = "insert"
        /\ UNCHANGED db_manager
        /\ \/ /\ req' = [req EXCEPT ![w] = StoreFailure(req[w], "insert_one")]
              /\ UNCHANGED store
           \/ /\ DuplicateKeyError(store, employee_dict)
              /\ req' = [req EXCEPT ![w] = Respond(r, 400, "Conflict", << >>)]
              /\ store' = insert_one(store, employee_dict)
           \/ /\ ~DuplicateKeyError(store, employee_dict)
              /\ store' = insert_one(store, employee_dict)
              /\ req' = Wrote(w, Respond(r, 201, "Created", <<Pop(inserted, "_id")>>),
                              employee_dict.employee_id)


-----------------------------------------------------------------------------
(* get_employee: GET /employees/{employee_id} *)

GetStart(w, id) ==
    /\ CanStart(w)
    /\ UNCHANGED db_manager
    /\ req' = Enter(w, [IdleReq EXCEPT !.op = "get", !.pc = "find", !.employee_id = id])
    /\ UNCHANGED store

\* await db.find_one({"employee_id": employee_id}, {"_id": 0}) and the rest
GetFind(w) ==
    LET r == Called(req[w], "find_one")
        found == find_one(store, req[w].employee_id)
    IN  /\ req[w].op = "get" /\ req[w].pc = "find"
        /\ UNCHANGED db_manager
        /\ \/ req' = [req EXCEPT ![w] = StoreFailure(req[w], "find_one")]
           \/ /\ IsNone(found)
              /\ req' = [req EXCEPT ![w] = Respond(r, 404, "NotFound", << >>)]
           \/ /\ ~IsNone(found)
              /\ req' = [req EXCEPT ![w] =
                            IF EmployeeResponseOk(Project(Val(found)))
                            THEN Respond(r, 200, "OK", <<Project(Val(found))>>)
                            ELSE Respond(r, 500, "InternalError", << >>)]
        /\ UNCHANGED store

-----------------------------------------------------------------------------
(* get_all_employees: GET /employees?page&limit&department *)

PageMin == 1
LimitMin == 1
LimitMax == 100

\* The Query(...) constraints on page, limit and department.
ListQueryOk(q) ==
    /\ q.page >= PageMin
    /\ q.limit >= LimitMin
    /\ q.limit <= LimitMax
    /\ (IsNone(q.department) \/ Val(q.department) \in DepartmentValues)

\* EmployeeListResponse(...) validates every employee it is given.
EmployeeListResponseOk(employees) ==
    \A i \in DOMAIN employees : EmployeeResponseOk(employees[i])

ListStart(w, q) ==
    /\ CanStart(w)
    /\ UNCHANGED db_manager
    /\ req' = IF ListQueryOk(q)
              THEN Enter(w, [IdleReq EXCEPT !.op = "list", !.pc = "count",
                                            !.page = q.page, !.limit = q.limit,
                                            !.department = q.department])
              ELSE [req EXCEPT ![w] = Rejected("list")]
    /\ UNCHANGED store

\* query_filter and skip are built, then await db.count_documents(query_filter)
ListCount(w) ==
    LET r == Called(req[w], "count_documents")
    IN  /\ req[w].op = "list" /\ req[w].pc = "count"
        /\ UNCHANGED db_manager
        /\ \/ req' = [req EXCEPT ![w] = StoreFailure(req[w], "count_documents")]
           \/ req' = [req EXCEPT ![w] =
                         [r EXCEPT !.pc = "fetch",
                                   !.total_count =
                                       count_documents(store, req[w].department)]]
        /\ UNCHANGED store

\* await cursor.to_list(length=limit) and the response
ListFetch(w) ==
    LET r == Called(req[w], "find")
        skip == (req[w].page - 1) * req[w].limit
        employees == find(store, req[w].department, skip, req[w].limit)
    IN  /\ req[w].op = "list" /\ req[w].pc = "fetch"
        /\ UNCHANGED db_manager
        /\ \/ req' = [req EXCEPT ![w] = StoreFailure(req[w], "find")]
           \/ req' = [req EXCEPT ![w] =
                         IF EmployeeListResponseOk(employees)
                         THEN Respond(r, 200, "OK", employees)
                         ELSE Respond(r, 500, "InternalError", << >>)]
        /\ UNCHANGED store

-----------------------------------------------------------------------------
(* get_departments: GET /employees/meta/departments *)

\* The handler has no await and no database dependency: it answers with the
\* values of the enum's members in declaration order.
GetDepartments(w) ==
    /\ req[w].pc \in {"idle", "done"}
    /\ req' = [req EXCEPT ![w] =
                  Respond([IdleReq EXCEPT !.op = "departments"], 200, "OK", Department)]
    /\ UNCHANGED <<store, db_manager>>

-----------------------------------------------------------------------------
(* health_check: GET /health *)

\* The handler takes no database dependency: it runs whatever the state of
\* the connection.
HealthStart(w) ==
    /\ req[w].pc \in {"idle", "done"}
    /\ req' = [req EXCEPT ![w] = [IdleReq EXCEPT !.op = "health", !.pc = "ping"]]
    /\ UNCHANGED <<store, db_manager>>

\* await db_manager.client.admin.command("ping") inside try / except
\* Exception: the answer is 200 either way, and names the database healthy or
\* unhealthy.  Without a client the attribute access raises, which the except
\* branch catches as well.
HealthPing(w) ==
    LET r == Called(req[w], "ping")
        health(db_status) == <<[status |-> "running", database |-> db_status]>>
    IN  /\ req[w].op = "health" /\ req[w].pc = "ping"
        /\ \/ /\ ~IsNone(db_manager.client)
              /\ req' = [req EXCEPT ![w] = Respond(r, 200, "OK", health("healthy"))]
           \/ req' = [req EXCEPT ![w] = Respond(r, 200, "OK", health("unhealthy"))]
        /\ UNCHANGED <<store, db_manager>>

-----------------------------------------------------------------------------
(* update_employee: PATCH /employees/{employee_id} *)

\* The keys a JSON body gives as null.
NullKeys(body) == {k \in DOMAIN body : IsNone(body[k])}

UpdateStart(w, id, raw) ==
    /\ CanStart(w)
    /\ UNCHANGED db_manager
    /\ req' = IF EmployeeUpdateOk(FieldsOf(raw))
              THEN Enter(w, [IdleReq EXCEPT !.op = "update", !.pc = "find",
                                            !.employee_id = id,
                                            !.nulls = NullKeys(raw),
                                            !.employee_update =
                                                Some(EmployeeUpdate(FieldsOf(raw)))])
              ELSE [req EXCEPT ![w] = [Rejected("update") EXCEPT
                                          !.employee_id = id,
                                          !.nulls = NullKeys(raw)]]
    /\ UNCHANGED store

\* await db.find_one({"employee_id": employee_id}), then update_data is built
UpdateFind(w) ==
    LET r == Called(req[w], "find_one")
        existing_employee == find_one(store, req[w].employee_id)
        update_data == UpdateData(Val(req[w].employee_update))
    IN  /\ req[w].op = "update" /\ req[w].pc = "find"
        /\ UNCHANGED db_manager
        /\ \/ req' = [req EXCEPT ![w] = StoreFailure(req[w], "find_one")]
           \/ /\ IsNone(existing_employee)
              /\ req' = [req EXCEPT ![w] = Respond(r, 404, "NotFound", << >>)]
           \/ /\ ~IsNone(existing_employee)
              /\ DOMAIN update_data = {}
              /\ req' = [req EXCEPT ![w] =
                            Respond(r, 400, "NoFieldsProvided", << >>)]
           \/ /\ ~IsNone(existing_employee)
              /\ DOMAIN update_data # {}
              /\ req' = [req EXCEPT ![w] =
                            [r EXCEPT !.pc = "write"]]
        /\ UNCHANGED store

\* await db.update_one({"employee_id": employee_id}, {"$set": update_data})
UpdateWrite(w) ==
    LET r == Called(req[w], "update_one")
        id == req[w].employee_id
        update_data == UpdateData(Val(req[w].employee_update))
        after == update_one(store, id, update_data)
    IN  /\ req[w].op = "update" /\ req[w].pc = "write"
        /\ UNCHANGED db_manager
        /\ \/ /\ req' = [req EXCEPT ![w] = StoreFailure(req[w], "update_one")]
              /\ UNCHANGED store
           \/ /\ store' = after
              /\ req' = IF after # store
                        THEN Wrote(w, [r EXCEPT !.pc = "reread"], id)
                        ELSE [req EXCEPT ![w] = [r EXCEPT !.pc = "reread"]]

\* await db.find_one({"employee_id": employee_id}, {"_id": 0}) and the response
UpdateReread(w) ==
    LET r == Called(req[w], "find_one")
        updated_employee == find_one(store, req[w].employee_id)
    IN  /\ req[w].op = "update" /\ req[w].pc = "reread"
        /\ UNCHANGED db_manager
        /\ \/ req' = [req EXCEPT ![w] = StoreFailure(req[w], "find_one")]
           \/ req' = [req EXCEPT ![w] =
                         Respond(r, 200, "OK",
                                 IF IsNone(updated_employee) THEN << >>
                                 ELSE <<Project(Val(updated_employee))>>)]
        /\ UNCHANGED store

-----------------------------------------------------------------------------
(* delete_employee: DELETE /employees/{employee_id} *)

DeleteStart(w, id) ==
    /\ CanStart(w)
    /\ UNCHANGED db_manager
    /\ req' = Enter(w, [IdleReq EXCEPT !.op = "delete", !.pc = "find", !.employee_id = id])
    /\ UNCHANGED store

\* await db.find_one({"employee_id": employee_id})
DeleteFind(w) ==
    LET r == Called(req[w], "find_one")
        existing_employee == find_one(store, req[w].employee_id)
    IN  /\ req[w].op = "delete" /\ req[w].pc = "find"
        /\ UNCHANGED db_manager
        /\ \/ req' = [req EXCEPT ![w] = StoreFailure(req[w], "find_one")]
           \/ /\ IsNone(existing_employee)
              /\ req' = [req EXCEPT ![w] = Respond(r, 404, "NotFound", << >>)]
           \/ /\ ~IsNone(existing_employee)
              /\ req' = [req EXCEPT ![w] =
                            [r EXCEPT !.pc = "remove"]]
        /\ UNCHANGED store

\* await db.delete_one({"employee_id": employee_id}) and the response
DeleteRemove(w) ==
    LET r == Called(req[w], "delete_one")
        id == req[w].employee_id
    IN  /\ req[w].op = "delete" /\ req[w].pc = "remove"
        /\ UNCHANGED db_manager
        /\ \/ /\ req' = [req EXCEPT ![w] = StoreFailure(req[w], "delete_one")]
              /\ UNCHANGED store
           \/ /\ deleted_count(store, id) = 1
              /\ store' = delete_one(store, id)
              /\ req' = Wrote(w, Respond(r, 200, "OK", <<[deleted_employee_id |-> id]>>), id)
           \/ /\ deleted_count(store, id) # 1
              /\ req' = [req EXCEPT ![w] = Respond(r, 500, "InternalError", << >>)]
              /\ UNCHANGED store

-----------------------------------------------------------------------------

\* The requests that write or read single records.
Next ==
    \E w \in Workers :
        \/ \E raw \in CreateBodies : CreateStart(w, raw)
        \/ CreateInsert(w)
        \/ \E id \in PathIds : GetStart(w, id)
        \/ GetFind(w)
        \/ \E id \in UpdateIds, raw \in UpdateBodies : UpdateStart(w, id, raw)
        \/ UpdateFind(w)
        \/ UpdateWrite(w)
        \/ UpdateReread(w)
        \/ \E id \in PathIds : DeleteStart(w, id)
        \/ DeleteFind(w)
        \/ DeleteRemove(w)

Spec == Init /\ [][Next]_vars

\* The paginated listing next to the requests that add, read and remove
\* records.
NextList ==
    \E w \in Workers :
        \/ \E raw \in CreateBodies : CreateStart(w, raw)
        \/ CreateInsert(w)
        \/ \E id \in PathIds : GetStart(w, id)
        \/ GetFind(w)
        \/ \E q \in ListQueries : ListStart(w, q)
        \/ ListCount(w)
        \/ ListFetch(w)
        \/ \E id \in PathIds : DeleteStart(w, id)
        \/ DeleteFind(w)
        \/ DeleteRemove(w)

SpecList == Init /\ [][NextList]_vars

-----------------------------------------------------------------------------
(* Properties *)

StoredIds(coll) == {coll[i].employee_id : i \in DOMAIN coll}

IdSeq(coll) == [i \in DOMAIN coll |-> coll[i].employee_id]

\* Worker w takes a step of its handler (every handler step moves its pc; a
\* request that FastAPI rejects never enters the handler).
Steps(w) == req'[w].pc # req[w].pc

DoneOp(r, op) == r.op = op /\ r.pc = "done"

\* Two Creates of one id that ran alongside each other, both started while
\* the id was not stored, both finished without a store failure.
RacedCreates(w, v) ==
    /\ w # v
    /\ DoneOp(req[w], "create") /\ DoneOp(req[v], "create")
    /\ req[w].status # 422 /\ req[v].status # 422
    /\ req[w].employee_id = req[v].employee_id
    /\ v \in req[w].rivals /\ w \in req[v].rivals
    /\ req[w].absent0 /\ req[v].absent0
    /\ ~req[w].failed /\ ~req[v].failed

\* C1: of two Create requests with the same employee_id that run alongside
\* each other against a store not holding that id, without store failure,
\* exactly one ends in 201 and the other in Conflict (400); the only store
\* call a Create issues is one insert_one (no existence read before it).
C1_ConcurrentCreates ==
    /\ \A w \in Workers :
          DoneOp(req[w], "create") /\ req[w].status # 422
              => req[w].calls = <<"insert_one">>
    /\ \A w, v \in Workers :
          RacedCreates(w, v)
              => /\ {req[w].status, req[v].status} = {201, 400}
                 /\ {req[w].kind, req[v].kind} = {"Created", "Conflict"}

C1_Witness == \E w, v \in Workers : RacedCreates(w, v)

\* C2: in every reachable state no two stored records have the same
\* employee_id.
C2_UniqueEmployeeId ==
    \A i, j \in DOMAIN store :
        i # j => store[i].employee_id # store[j].employee_id

\* Two records are stored and a Create of a stored id was turned away.
C2_Witness ==
    /\ Len(store) = 2
    /\ \E w \in Workers : DoneOp(req[w], "create") /\ req[w].kind = "Conflict"

\* The constraints of section 3 of the specification on a stored record: an
\* id of 1 to 50 characters of the pattern, a name that is trimmed and has 2
\* to 100 characters, an age in [18, 100], a department of the enum.
ValidDocument(doc) ==
    /\ DOMAIN doc = EmployeeKeys \cup {"_id"}
    /\ EmployeeIdOk(doc.employee_id)
    /\ Strip(doc.name) = doc.name
    /\ Len(doc.name) >= NameMinLen /\ Len(doc.name) <= NameMaxLen
    /\ doc.age >= AgeMin /\ doc.age <= AgeMax
    /\ doc.department \in DepartmentValues

\* C3: in every reachable state every stored document has all four fields,
\* with values that satisfy the field constraints.
C3_StoredDocumentsValid == \A i \in DOMAIN store : ValidDocument(store[i])

-----------------------------------------------------------------------------

\* The record an Update's success response carries has the four API fields
\* and the target id.
FullRecordOf(rec, id) == DOMAIN rec = EmployeeKeys /\ rec.employee_id = id

\* The record shows every field the update body gave, with the given value.
Merged(rec, employee_update) ==
    \A k \in UpdateKeys :
        ~IsNone(employee_update[k]) => rec[k] = Val(employee_update[k])

\* Worker w's Update takes its last step (the re-read) and answers 200.
UpdateSucceeds(w) ==
    /\ req[w].op = "update" /\ req[w].pc = "reread"
    /\ req'[w].pc = "done" /\ req'[w].status = 200

\* C4 as stated: every Update that ends in 200 returns the full record of the
\* target id, all four fields present and showing the merged values, under
\* every interleaving, a concurrent Delete of that id included.
C4_UpdateReturnsFullRecord ==
    [][\A w \in Workers :
          UpdateSucceeds(w)
              => /\ Len(req'[w].data) = 1
                 /\ FullRecordOf(req'[w].data[1], req[w].employee_id)
                 /\ Merged(req'[w].data[1], Val(req[w].employee_update))]_vars

\* C4 as amended: an Update that ends in 200 returns what its re-read finds:
\* no record when another request removed the target after the existence
\* check, else the target's full record (four fields, no _id), which shows
\* the merged values whenever no other request changed the target since this
\* Update's own write.
C4_UpdateReturnsReread ==
    [][\A w \in Workers :
          UpdateSucceeds(w)
              => \/ /\ req'[w].data = << >>
                    /\ req[w].touched
                    /\ req[w].employee_id \notin StoredIds(store)
                 \/ /\ Len(req'[w].data) = 1
                    /\ req[w].employee_id \in StoredIds(store)
                    /\ FullRecordOf(req'[w].data[1], req[w].employee_id)
                    /\ (~req[w].touched
                          => Merged(req'[w].data[1], Val(req[w].employee_update)))]_vars

\* An Update answered 200 with no record: its target was deleted under it.
C4_Witness ==
    \E w \in Workers :
        DoneOp(req[w], "update") /\ req[w].status = 200 /\ req[w].data = << >>

\* C5: without store failure a Delete ends in success, returning the deleted
\* employee_id, or in NotFound, never in InternalError.
C5_DeleteOutcome ==
    \A w \in Workers :
        DoneOp(req[w], "delete") /\ ~req[w].failed
            => \/ /\ req[w].status = 200
                  /\ req[w].data = <<[deleted_employee_id |-> req[w].employee_id]>>
               \/ req[w].status = 404 /\ req[w].kind = "NotFound"

\* Worker v's Create succeeded and no other request has changed its record
\* since.
FreshlyCreated(v) ==
    DoneOp(req[v], "create") /\ req[v].status = 201 /\ ~req[v].touched

\* Worker w's Get takes its step (find_one and the response).
GetAnswers(w) == req[w].op = "get" /\ req[w].pc = "find" /\ req'[w].pc = "done"

\* C6: a successful Create answers with the validated employee e it stored,
\* and a Get of e's id after it, with no Update or Delete of that id in
\* between and no store failure, answers 200 with a record equal to e in
\* employee_id, name, age and department.
C6_CreateGetRoundTrip ==
    [][/\ \A v \in Workers :
             req[v].op = "create" /\ req[v].pc = "insert" /\ req'[v].status = 201
                 => req'[v].data = req[v].employee
       /\ \A v, w \in Workers :
             /\ v # w
             /\ FreshlyCreated(v)
             /\ GetAnswers(w)
             /\ req[w].employee_id = req[v].employee_id
             /\ ~req'[w].failed
             => /\ req'[w].status = 200
                /\ req'[w].data = req[v].data
                /\ \A k \in EmployeeKeys : k \in DOMAIN req'[w].data[1]]_vars

\* A Create succeeded and a Get of the same id answered with its record while
\* a second record was stored.
C6_Witness ==
    \E v, w \in Workers :
        /\ v # w
        /\ FreshlyCreated(v)
        /\ DoneOp(req[w], "get") /\ req[w].status = 200
        /\ req[w].employee_id = req[v].employee_id
        /\ req[w].data = req[v].data
        /\ Len(store) = 2

-----------------------------------------------------------------------------

\* Worker v's Delete succeeded and no request has written its id since (no
\* Create of that id in particular).
FreshlyDeleted(v) ==
    DoneOp(req[v], "delete") /\ req[v].status = 200 /\ ~req[v].touched

\* Worker w's List takes its last step (the fetch and the response).
ListAnswers(w) == req[w].op = "list" /\ req[w].pc = "fetch" /\ req'[w].pc = "done"

\* C7: after a successful Delete(id), with no Create of that id since, the
\* record is absent from the store, a Get(id) answers NotFound (404), and no
\* List response holds a record with that id.
C7_DeleteThenGet ==
    [][\A v \in Workers :
          FreshlyDeleted(v)
              => /\ req[v].employee_id \notin StoredIds(store)
                 /\ \A w \in Workers \ {v} :
                       /\ GetAnswers(w)
                       /\ req[w].employee_id = req[v].employee_id
                       /\ ~req'[w].failed
                       => req'[w].status = 404 /\ req'[w].kind = "NotFound"
                 /\ \A w \in Workers \ {v} :
                       ListAnswers(w)
                           => \A i \in DOMAIN req'[w].data :
                                 req'[w].data[i].employee_id # req[v].employee_id]_vars

\* A Delete succeeded while another record stayed stored, and a Get of the
\* deleted id answered NotFound.
C7_Witness ==
    \E v, w \in Workers :
        /\ v # w
        /\ FreshlyDeleted(v)
        /\ DoneOp(req[w], "get") /\ req[w].status = 404
        /\ req[w].employee_id = req[v].employee_id
        /\ Len(store) = 1

\* Worker w's Update takes its write step (update_one returns).
UpdateWrites(w) ==
    req[w].op = "update" /\ req[w].pc = "write" /\ req'[w].pc = "reread"

\* C8: the write of Update(id, partial) changes, in the record of id, exactly
\* the fields present in the partial set, to the given values; every other
\* field of that record and every record of another id stay as they were,
\* and no other step of an Update changes the store.
C8_PartialUpdateFrame ==
    [][\A w \in Workers :
          /\ UpdateWrites(w)
                => /\ Len(store') = Len(store)
                   /\ \A i \in DOMAIN store :
                         /\ DOMAIN store'[i] = DOMAIN store[i]
                         /\ \A k \in DOMAIN store[i] :
                               IF /\ store[i].employee_id = req[w].employee_id
                                  /\ k \in UpdateKeys
                                  /\ ~IsNone(Val(req[w].employee_update)[k])
                               THEN store'[i][k] = Val(Val(req[w].employee_update)[k])
                               ELSE store'[i][k] = store[i][k]
          /\ req[w].op = "update" /\ Steps(w) /\ ~UpdateWrites(w)
                => store' = store]_vars

\* An Update that gave only a name has written it: the target holds the new
\* name next to the department it was created with, beside a second record.
C8_Witness ==
    \E w \in Workers :
        /\ req[w].op = "update" /\ req[w].pc = "reread" /\ ~req[w].touched
        /\ req[w].employee_update = Some([NoFields EXCEPT !.name = Some(<<"a">>)])
        /\ Len(store) = 2
        /\ \E i \in DOMAIN store :
              /\ store[i].employee_id = req[w].employee_id
              /\ store[i].name = <<"a">>
              /\ store[i].department = "Engineering"

\* C9: no step of an Update changes which ids are stored (even when its
\* target was deleted under it); the set of stored ids grows only by the id
\* of a Create's insert and shrinks only by the id of a Delete's delete; and
\* no record's employee_id ever changes.
C9_EmployeeIdImmutable ==
    [][/\ \A w \in Workers :
             req[w].op = "update" /\ Steps(w) => IdSeq(store') = IdSeq(store)
       /\ StoredIds(store') # StoredIds(store)
             => \E w \in Workers :
                   \/ /\ req[w].op = "create" /\ req[w].pc = "insert" /\ Steps(w)
                      /\ req[w].employee_id \notin StoredIds(store)
                      /\ StoredIds(store') = StoredIds(store) \cup {req[w].employee_id}
                   \/ /\ req[w].op = "delete" /\ req[w].pc = "remove" /\ Steps(w)
                      /\ req[w].employee_id \in StoredIds(store)
                      /\ StoredIds(store') = StoredIds(store) \ {req[w].employee_id}
       /\ \A i \in DOMAIN store, j \in DOMAIN store' :
             store[i]["_id"] = store'[j]["_id"]
                 => store[i].employee_id = store'[j].employee_id]_vars

\* An Update has issued its write after its target was deleted under it.
C9_Witness ==
    \E w \in Workers :
        /\ req[w].op = "update" /\ req[w].pc = "reread"
        /\ req[w].calls = <<"find_one", "update_one">>
        /\ req[w].employee_id \notin StoredIds(store)

\* Worker w's Update, its body without any field, takes its first handler
\* step while its id is stored.
EmptyUpdateChecks(w) ==
    /\ req[w].op = "update" /\ req[w].pc = "find" /\ Steps(w)
    /\ req[w].employee_update = Some(NoFields)
    /\ req[w].employee_id \in StoredIds(store)

\* C10: an Update with no field present on a stored id ends (no store
\* failure) in NoFieldsProvided, 400 and not the 422 of a validation error,
\* having issued the existence read only, with the store unchanged.
C10_NoFieldsProvided ==
    [][\A w \in Workers :
          EmptyUpdateChecks(w) /\ ~req'[w].failed
              => /\ req'[w].pc = "done"
                 /\ req'[w].status = 400
                 /\ req'[w].kind = "NoFieldsProvided"
                 /\ req'[w].calls = <<"find_one">>
                 /\ store' = store]_vars

\* An Update ended in NoFieldsProvided.
C10_Witness ==
    \E w \in Workers :
        /\ DoneOp(req[w], "update") /\ req[w].kind = "NoFieldsProvided"
        /\ req[w].employee_id \in StoredIds(store)


-----------------------------------------------------------------------------
(* Update of an id that is not stored *)

\* An Update request of worker w is answered in this step about an id the
\* store does not hold: FastAPI turns the body away, or the handler's
\* existence read finds nothing.  No store call of the request failed.
UpdateOfMissingId(w) ==
    /\ req'[w] # req[w]
    /\ req[w].pc \in {"idle", "done", "find"}
    /\ DoneOp(req'[w], "update")
    /\ req'[w].employee_id \notin StoredIds(store)
    /\ ~req'[w].failed

\* C11 (as stated): an Update on an employee_id that is not in the store
\* ends in NotFound (404) whatever its body is (valid, invalid or empty),
\* and leaves the store unchanged.
C11_UpdateMissingIdNotFound ==
    [][\A w \in Workers :
          UpdateOfMissingId(w)
              => /\ req'[w].status = 404
                 /\ req'[w].kind = "NotFound"
                 /\ store' = store]_vars

\* C11 (amended): an Update on an employee_id that is not in the store
\* leaves the store unchanged and ends in one of two ways: a body that fails
\* validation is turned away with ValidationError (422) before the handler
\* issues any store call; every body that passes validation, the empty one
\* included, ends in NotFound (404) after the existence read alone, never in
\* NoFieldsProvided.
C11_UpdateMissingIdOutcome ==
    [][\A w \in Workers :
          UpdateOfMissingId(w)
              => /\ store' = store
                 /\ \/ /\ CanStart(w)
                       /\ req'[w].status = 422
                       /\ req'[w].kind = "ValidationError"
                       /\ req'[w].calls = << >>
                    \/ /\ req[w].pc = "find"
                       /\ ~IsNone(req[w].employee_update)
                       /\ req'[w].status = 404
                       /\ req'[w].kind = "NotFound"
                       /\ req'[w].calls = <<"find_one">>]_vars

\* Another id is stored, one Update of the missing id was answered NotFound
\* and one was turned away by validation.
C11_Witness ==
    /\ store # << >>
    /\ \E w, v \in Workers :
          /\ DoneOp(req[w], "update") /\ req[w].status = 404
          /\ DoneOp(req[v], "update") /\ req[v].status = 422
          /\ req[w].employee_id \notin StoredIds(store)
          /\ req[v].employee_id \notin StoredIds(store)

-----------------------------------------------------------------------------
(* Create of a stored id *)

\* Worker w's Create is answered in this step while its employee_id is
\* stored, and its insert_one did not fail for another reason.
CreateOfStoredId(w) ==
    /\ req[w].op = "create" /\ req[w].pc = "insert"
    /\ DoneOp(req'[w], "create")
    /\ req[w].employee_id \in StoredIds(store)
    /\ ~req'[w].failed

\* C12: a Create whose employee_id is already in the store ends in Conflict
\* (400), not in InternalError (500), and leaves the store unchanged: the
\* stored record keeps all its field values and no record is added.
C12_DuplicateIsConflict ==
    [][\A w \in Workers :
          CreateOfStoredId(w)
              => /\ req'[w].status = 400
                 /\ req'[w].kind = "Conflict"
                 /\ req'[w].data = << >>
                 /\ store' = store]_vars

\* A Create that started when its id was already stored, with no Create of
\* that id alongside it, was answered Conflict.
C12_Witness ==
    \E w \in Workers :
        /\ DoneOp(req[w], "create") /\ req[w].kind = "Conflict"
        /\ ~req[w].absent0 /\ req[w].rivals = {}
        /\ req[w].employee_id \in StoredIds(store)

-----------------------------------------------------------------------------
(* Two Updates of one record *)

\* The stored record of id (the caller has checked that there is one).
RecordOf(coll, id) == coll[FirstMatch(coll, id)]

\* Worker w's Update takes its write step as the second of two Updates of one
\* stored record: worker v's Update of the same id has written and not yet
\* answered, and no other request changed the record since v's write.
SecondWrite(w, v) ==
    /\ w # v
    /\ UpdateWrites(w)
    /\ req[v].op = "update" /\ req[v].pc = "reread"
    /\ req[v].employee_id = req[w].employee_id
    /\ ~req[v].touched
    /\ FirstMatch(store, req[w].employee_id) # 0

\* C13: when two Updates of the same stored id run alongside each other, the
\* record after the second store write holds, in every field set by both,
\* the value of the second write; in every field set by one of them only,
\* that Update's value; and in every other field what it held before.  The
\* re-reads that follow change nothing, so this is the final stored value.
C13_LastWriterWins ==
    [][\A w, v \in Workers :
          /\ SecondWrite(w, v)
                => LET id     == req[w].employee_id
                       second == UpdateData(Val(req[w].employee_update))
                       first  == UpdateData(Val(req[v].employee_update))
                       old    == RecordOf(store, id)
                       new    == RecordOf(store', id)
                   IN  /\ FirstMatch(store', id) = FirstMatch(store, id)
                       /\ DOMAIN new = DOMAIN old
                       /\ \A k \in DOMAIN second : new[k] = second[k]
                       /\ \A k \in (DOMAIN first) \ (DOMAIN second) : new[k] = first[k]
                       /\ \A k \in (DOMAIN old) \ (DOMAIN first \cup DOMAIN second) :
                             new[k] = old[k]
          /\ req[w].op = "update" /\ req[w].pc = "reread" /\ Steps(w)
                => store' = store]_vars

\* Both Updates have written: they gave different values for one field, which
\* holds the second writer's value, and the first writer alone gave another
\* field, which holds the first writer's value, not the one it had before.
C13_Witness ==
    \E w, v \in Workers :
        /\ w # v
        /\ req[w].op = "update" /\ req[w].pc = "reread" /\ ~req[w].touched
        /\ req[v].op = "update" /\ req[v].pc = "reread" /\ req[v].touched
        /\ req[v].employee_id = req[w].employee_id
        /\ FirstMatch(store, req[w].employee_id) # 0
        /\ LET second == UpdateData(Val(req[w].employee_update))
               first  == UpdateData(Val(req[v].employee_update))
               rec    == RecordOf(store, req[w].employee_id)
           IN  /\ \E k \in (DOMAIN first) \cap (DOMAIN second) :
                     first[k] # second[k] /\ rec[k] = second[k]
               /\ \E k \in (DOMAIN first) \ (DOMAIN second) : rec[k] = first[k]

-----------------------------------------------------------------------------
(* Pagination: listings of a store that no request writes *)

\* The largest seeded store and the last page asked for.
MaxSeed == 30
MaxPage == 4

\* The default of the limit parameter.
LimitDefault == 10

Digits == <<"0", "1", "2", "3", "4", "5", "6", "7", "8", "9">>

\* The i-th seeded record: ids E01, E02, ...; every sixth record is in
\* Marketing, the others in Engineering, so that a store of 30 holds 25
\* records of Engineering and 5 of Marketing.
SeedRecord(i) ==
    [_id         |-> i,
     employee_id |-> <<"E", Digits[(i \div 10) + 1], Digits[(i % 10) + 1]>>,
     name        |-> NameAB,
     age         |-> AgeMin + i,
     department  |-> IF i % 6 = 0 THEN "Marketing" ELSE "Engineering"]

SeededStore(n) == [i \in 1 .. n |-> SeedRecord(i)]

\* The empty store, a store of one record, and the largest.
SeededStores == {SeededStore(n) : n \in {0, 1, MaxSeed}}

\* Every page up to MaxPage, with the smallest, the default and the largest
\* limit, unfiltered and filtered, and the queries FastAPI turns away.
PageQueries ==
    { [page |-> p, limit |-> l, department |-> d] :
          p \in PageMin .. MaxPage,
          l \in {LimitMin, LimitDefault, LimitMax},
          d \in {None, Some("Engineering"), Some("Marketing")} }
    \cup { [NoQuery EXCEPT !.page = PageMin - 1],
           [NoQuery EXCEPT !.limit = LimitMin - 1],
           [NoQuery EXCEPT !.limit = LimitMax + 1] }

\* The service is up with some records stored and no request being handled.
InitPage ==
    /\ store \in SeededStores
    /\ req = [w \in Workers |-> IdleReq]
    /\ db_manager = ConnectedManager

\* Only listings are requested.
NextPage ==
    \E w \in Workers :
        \/ \E q \in PageQueries : ListStart(w, q)
        \/ ListCount(w)
        \/ ListFetch(w)

SpecPage == InitPage /\ [][NextPage]_vars

\* The positions of the stored records that match the filter.
Matching(coll, department) ==
    {i \in DOMAIN coll : MatchesFilter(coll[i], department)}

\* The position in coll of the n-th record that matches the filter.
NthMatching(coll, department, n) ==
    CHOOSE i \in Matching(coll, department) :
        Cardinality({j \in Matching(coll, department) : j <= i}) = n

\* Worker w's listing is answered in this step without a store failure.
ListFetches(w) ==
    /\ req[w].op = "list" /\ req[w].pc = "fetch"
    /\ req'[w].pc = "done" /\ ~req'[w].failed

\* C14: a listing of a store that nobody writes, for page >= 1 and
\* 1 <= limit <= 100, returns exactly the records at positions skip + 1 ..
\* skip + limit, skip = (page - 1) * limit, of the matching records in store
\* order, as far as they exist, without _id: never more than limit records,
\* each one matching the filter.
C14_PageWindow ==
    [][\A w \in Workers :
          ListFetches(w)
              => LET skip     == (req[w].page - 1) * req[w].limit
                     matches  == Cardinality(Matching(store, req[w].department))
                     expected == IF matches - skip < 0 THEN 0
                                 ELSE IF matches - skip < req[w].limit
                                      THEN matches - skip
                                      ELSE req[w].limit
                 IN  /\ req[w].page >= 1
                     /\ req[w].limit >= 1 /\ req[w].limit <= 100
                     /\ req'[w].status = 200
                     /\ Len(req'[w].data) = expected
                     /\ Len(req'[w].data) <= req[w].limit
                     /\ \A i \in DOMAIN req'[w].data :
                           /\ req'[w].data[i] =
                                 Pop(store[NthMatching(store, req[w].department, skip + i)],
                                     "_id")
                           /\ MatchesFilter(req'[w].data[i], req[w].department)]_vars

\* Of 25 matching records, page 1 with limit 10 was answered with 10
\* records and page 3 with 5, the 21st to the 25th.
C14_Witness ==
    /\ Cardinality(Matching(store, Some("Engineering"))) = 25
    /\ \E w, v \in Workers :
          /\ DoneOp(req[w], "list") /\ req[w].status = 200
          /\ req[w].page = 1 /\ req[w].limit = 10 /\ req[w].total_count = 25
          /\ Len(req[w].data) = 10
          /\ DoneOp(req[v], "list") /\ req[v].status = 200
          /\ req[v].page = 3 /\ req[v].limit = 10 /\ req[v].total_count = 25
          /\ Len(req[v].data) = 5
          /\ req[v].data[1] = Pop(store[NthMatching(store, Some("Engineering"), 21)], "_id")

\* Worker w's listing takes its counting step (count_documents returns).
ListCounts(w) ==
    /\ req[w].op = "list" /\ req[w].pc = "count"
    /\ req'[w].pc = "fetch"

C16_PageBeyondData ==
    [][\A w \in Workers :
          (/\ ListFetches(w)
           /\ (req[w].page - 1) * req[w].limit
                 >= Cardinality(Matching(store, req[w].department)))
              => /\ req'[w].status = 200
                 /\ req'[w].kind = "OK"
                 /\ req'[w].data = << >>
                 /\ req'[w].total_count =
                        Cardinality(Matching(store, req[w].department))]_vars

\* Page 4 with limit 10 of 25 matching records among 30 was answered with no
\* record and total_count 25, and page 2 with limit 100 the same way.
C16_Witness ==
    /\ Cardinality(Matching(store, Some("Engineering"))) = 25
    /\ \E w, v \in Workers :
          /\ DoneOp(req[w], "list") /\ req[w].status = 200
          /\ req[w].page = 4 /\ req[w].limit = 10
          /\ req[w].data = << >> /\ req[w].total_count = 25
          /\ DoneOp(req[v], "list") /\ req[v].status = 200
          /\ req[v].page = 2 /\ req[v].limit = 100
          /\ req[v].data = << >> /\ req[v].total_count = 25

-----------------------------------------------------------------------------
(* Store failures: the five operations side by side *)

\* One body, one partial update beside the empty one, one query, one id.
FewUpdateBodies == {NoFields, [NoFields EXCEPT !.name = Some(NameA)]}

FewQueries == {[NoQuery EXCEPT !.limit = 2]}

NextAll ==
    \E w \in Workers :
        \/ CreateStart(w, BaseBody)
        \/ CreateInsert(w)
        \/ GetStart(w, ID1)
        \/ GetFind(w)
        \/ \E q \in FewQueries : ListStart(w, q)
        \/ ListCount(w)
        \/ ListFetch(w)
        \/ \E raw \in FewUpdateBodies : UpdateStart(w, ID1, raw)
        \/ UpdateFind(w)
        \/ UpdateWrite(w)
        \/ UpdateReread(w)
        \/ DeleteStart(w, ID1)
        \/ DeleteFind(w)
        \/ DeleteRemove(w)
        \/ GetDepartments(w)
        \/ HealthStart(w)
        \/ HealthPing(w)

SpecAll == Init /\ [][NextAll]_vars

\* The store calls each operation issues, in the handler's order.
StoreCalls(op) ==
    CASE op = "create" -> <<"insert_one">>
      [] op = "get"    -> <<"find_one">>
      [] op = "list"   -> <<"count_documents", "find">>
      [] op = "update" -> <<"find_one", "update_one", "find_one">>
      [] op = "delete" -> <<"find_one", "delete_one">>
      [] op = "health" -> <<"ping">>
      [] OTHER         -> << >>

\* C17: in each of Create, Get, List, Update and Delete, a store call that
\* fails (the duplicate-key rejection of an insert is not a failure) ends the
\* request at that call in InternalError (500): a request with a failed store
\* call is never answered NotFound, Conflict, NoFieldsProvided or success.
C17_StoreFailureIs500 ==
    \A w \in Workers :
        /\ req[w].failed
              => /\ req[w].pc = "done"
                 /\ req[w].status = 500
                 /\ req[w].kind = "InternalError"
                 /\ req[w].data = << >>
                 /\ req[w].calls # << >>
                 /\ req[w].calls =
                        SubSeq(StoreCalls(req[w].op), 1, Len(req[w].calls))
        /\ req[w].kind \in {"NotFound", "Conflict", "NoFieldsProvided",
                            "OK", "Created", "ValidationError"}
              => ~req[w].failed

\* An Update whose re-read failed after its write, and a List whose find
\* failed after its count, both answered 500.
C17_Witness ==
    \E w, v \in Workers :
        /\ req[w].op = "update" /\ req[w].failed /\ req[w].status = 500
        /\ req[w].calls = <<"find_one", "update_one", "find_one">>
        /\ req[v].op = "list" /\ req[v].failed /\ req[v].status = 500
        /\ req[v].calls = <<"count_documents", "find">>

-----------------------------------------------------------------------------
(* What a response shows of a record *)

\* C18: no response of Create, Get, List or Update contains the store's
\* internal identifier: every employee representation a response carries has
\* the fields employee_id, name, age and department and no other, while
\* every stored record carries its _id.
C18_NoInternalId ==
    /\ \A i \in DOMAIN store : "_id" \in DOMAIN store[i]
    /\ \A w \in Workers :
          req[w].op \in {"create", "get", "list", "update"}
              => \A i \in DOMAIN req[w].data :
                    /\ "_id" \notin DOMAIN req[w].data[i]
                    /\ DOMAIN req[w].data[i] = EmployeeKeys

\* An Update and a List were both answered with the stored record.
C18_Witness ==
    \E w, v \in Workers :
        /\ DoneOp(req[w], "update") /\ req[w].status = 200
        /\ DoneOp(req[v], "list") /\ req[v].status = 200
        /\ store # << >>
        /\ req[w].data = <<Pop(store[1], "_id")>>
        /\ req[v].data = <<Pop(store[1], "_id")>>

\* A Create and a Get were both answered with the stored record.
C18_WitnessCreateGet ==
    \E w, v \in Workers :
        /\ DoneOp(req[w], "create") /\ req[w].status = 201
        /\ DoneOp(req[v], "get") /\ req[v].status = 200
        /\ store # << >>
        /\ req[w].data = req[v].data
        /\ DOMAIN store[1] = DOMAIN req[w].data[1] \cup {"_id"}

-----------------------------------------------------------------------------
(* Connection lifecycle: connect(), disconnect() and get_collection() called *)
(* on a manager that starts unconnected                                      *)

\* The number of events the manager's history holds.
MaxLifecycleCalls == 6

\* A call that is logged at once finds room in the history, next to the
\* outcome of the connect() in progress.
Room(m) ==
    Len(m.log) + (IF m.pc = "idle" THEN 0 ELSE 1) < MaxLifecycleCalls

\* except Exception: log and re-raise; the handles stay as they are.
ConnectRaises(m) == [Logged(m, "connect_raised") EXCEPT !.pc = "idle"]

\* connect() up to its first await: the client is built (which raises on a
\* malformed URL), the three handles are assigned, create_index is called.
ConnectStart ==
    /\ db_manager.pc = "idle"
    /\ Len(db_manager.log) + 1 < MaxLifecycleCalls
    /\ \/ db_manager' = ConnectRaises(Logged(db_manager, "connect"))
       \/ db_manager' = [WithHandles(Logged(db_manager, "connect"))
                            EXCEPT !.pc = "create_index"]
    /\ UNCHANGED <<store, req>>

\* await self.collection.create_index("employee_id", unique=True)
ConnectCreateIndex ==
    /\ db_manager.pc = "create_index"
    /\ \/ db_manager' = ConnectRaises(db_manager)
       \/ db_manager' = [db_manager EXCEPT !.pc = "ping"]
    /\ UNCHANGED <<store, req>>

\* await self.client.admin.command("ping"); self.client is read again here,
\* so a disconnect() in between makes the attribute access raise.
ConnectPing ==
    /\ db_manager.pc = "ping"
    /\ \/ db_manager' = ConnectRaises(db_manager)
       \/ /\ ~IsNone(db_manager.client)
          /\ db_manager' = [Logged(db_manager, "connect_ok") EXCEPT !.pc = "idle"]
    /\ UNCHANGED <<store, req>>

\* disconnect(): has no await; clears the handles if there is a client.
Disconnect ==
    /\ Room(db_manager)
    /\ db_manager' =
          IF IsNone(db_manager.client)
          THEN Logged(db_manager, "disconnect")
          ELSE [Logged(db_manager, "disconnect")
                   EXCEPT !.client = None, !.database = None, !.collection = None]
    /\ UNCHANGED <<store, req>>

\* get_collection(), as get_database() calls it for a request.
GetCollection ==
    /\ Room(db_manager)
    /\ db_manager' =
          IF GetCollectionRaises(db_manager)
          THEN Logged(db_manager, "get_raised")
          ELSE Logged(db_manager, "get_returned")
    /\ UNCHANGED <<store, req>>

InitLifecycle ==
    /\ store = << >>
    /\ req = [w \in Workers |-> IdleReq]
    /\ db_manager = NewManager

NextLifecycle ==
    \/ ConnectStart
    \/ ConnectCreateIndex
    \/ ConnectPing
    \/ Disconnect
    \/ GetCollection

SpecLifecycle == InitLifecycle /\ [][NextLifecycle]_vars

\* The history before its n-th event.
Before(log, n) == SubSeq(log, 1, n - 1)

Occurrences(log, event) == Cardinality({i \in DOMAIN log : log[i] = event})

\* No connect() is in progress at the end of this history.
NoConnectRunning(log) ==
    Occurrences(log, "connect")
        = Occurrences(log, "connect_ok") + Occurrences(log, "connect_raised")

\* C19: get_collection() raises whenever it is called before a connect()
\* has succeeded: before the first connect(), and after a connect() that
\* raised (no connect() being in progress at the time of the call).
C19_GetCollectionFailsFast ==
    \A n \in DOMAIN db_manager.log :
        /\ db_manager.log[n] \in {"get_raised", "get_returned"}
        /\ Occurrences(Before(db_manager.log, n), "connect_ok") = 0
        /\ NoConnectRunning(Before(db_manager.log, n))
        => db_manager.log[n] = "get_raised"

-----------------------------------------------------------------------------
(* Validation: requests that have arrived with their bodies as sent *)

\* A name of n letters, and a name with a blank on either side.
Letters(n) == [i \in 1 .. n |-> "a"]

Padded(s) == <<" ">> \o s \o <<" ">>

\* Names around both ends of the length range, bare and padded with blanks,
\* the empty name and a name of blanks only, and names between blanks, a tab
\* and a newline.
RawNames ==
    { Letters(NameMinLen - 1), Letters(NameMinLen),
      Padded(Letters(NameMinLen - 1)), Padded(Letters(NameMinLen)),
      << >>, <<" ", " ">>,
      <<" ", " ", "J", "a", "n", "e", " ", " ">>,
      <<"\t", "J", "o", "\n">>,
      Letters(NameMaxLen), Letters(NameMaxLen + 1),
      Padded(Letters(NameMaxLen - 2)), Padded(Letters(NameMaxLen)) }

\* A request that has arrived and is not validated yet: it holds its body as
\* it was sent.
ReceivedCreate(raw) ==
    [IdleReq EXCEPT !.op = "create", !.employee_id = raw.employee_id,
                    !.employee = Some(raw)]

ReceivedUpdate(id, raw) ==
    [IdleReq EXCEPT !.op = "update", !.employee_id = id,
                    !.employee_update = Some(raw)]

\* Two labels of the enum, a misspelt one, one in lower case, the name of a
\* member instead of its value, and the empty string.
RawDepartments ==
    {"Marketing", "Research and Development", "Engneering", "engineering",
     "ENGINEERING", ""}

ReceivedList(q) ==
    [IdleReq EXCEPT !.op = "list", !.page = q.page, !.limit = q.limit,
                    !.department = q.department]

ReceivedDepartments == [IdleReq EXCEPT !.op = "departments"]

\* Ages on both sides of both ends of the range, zero and a negative age.
RawAges == {-1, 0, AgeMin - 1, AgeMin, AgeMax, AgeMax + 1}

\* Update bodies that leave fields out: the empty body, bodies of one key
\* with a value or with null, and a null next to a value.
SparseUpdateBodies ==
    { [k \in {} |-> None],
      [name |-> Some(NameAB)],
      [age |-> Some(AgeMin + 1)],
      [name |-> None],
      [department |-> None, age |-> Some(AgeMin + 1)],
      [name |-> None, department |-> Some("Marketing")] }

\* Bodies that differ from a valid one in one field, and the sparse bodies.
Received ==
    {ReceivedCreate([BaseBody EXCEPT !.name = n]) : n \in RawNames}
    \cup {ReceivedUpdate(ID1, [NoFields EXCEPT !.name = Some(n)]) : n \in RawNames}
    \cup {ReceivedCreate([BaseBody EXCEPT !.age = a]) : a \in RawAges}
    \cup {ReceivedUpdate(ID1, [NoFields EXCEPT !.age = Some(a)]) : a \in RawAges}
    \cup {ReceivedCreate([BaseBody EXCEPT !.department = d]) : d \in RawDepartments}
    \cup {ReceivedUpdate(ID1, [NoFields EXCEPT !.department = Some(d)]) :
              d \in RawDepartments}
    \cup {ReceivedList([NoQuery EXCEPT !.department = Some(d)]) : d \in RawDepartments}
    \cup {ReceivedDepartments}
    \cup {ReceivedUpdate(ID1, body) : body \in SparseUpdateBodies \cup {NoFields}}

InitValidation ==
    /\ store = << >>
    /\ req \in [Workers -> Received]
    /\ db_manager = ConnectedManager

\* FastAPI validates the body of a Create that has arrived and calls the
\* handler.
ValidateCreate(w) ==
    /\ req[w].op = "create" /\ req[w].pc = "idle"
    /\ CreateStart(w, Val(req[w].employee))

\* The same for an Update.
ValidateUpdate(w) ==
    /\ req[w].op = "update" /\ req[w].pc = "idle"
    /\ UpdateStart(w, req[w].employee_id, Val(req[w].employee_update))

\* The same for a List and its query parameters.
ValidateList(w) ==
    /\ req[w].op = "list" /\ req[w].pc = "idle"
    /\ ListStart(w, [page |-> req[w].page, limit |-> req[w].limit,
                     department |-> req[w].department])

\* A request for the department listing that has arrived is answered.
ServeDepartments(w) ==
    /\ req[w].op = "departments" /\ req[w].pc = "idle"
    /\ GetDepartments(w)

NextValidation ==
    \E w \in Workers :
        \/ ValidateCreate(w)
        \/ CreateInsert(w)
        \/ ValidateUpdate(w)
        \/ UpdateFind(w)
        \/ UpdateWrite(w)
        \/ UpdateReread(w)
        \/ ValidateList(w)
        \/ ListCount(w)
        \/ ListFetch(w)
        \/ ServeDepartments(w)

SpecValidation == InitValidation /\ [][NextValidation]_vars

\* What an Update body says of each field: its value, or None for a field
\* that it gives as null or leaves out.
Sent(body) == [k \in UpdateKeys |-> IF k \in DOMAIN body THEN body[k] ELSE None]

\* The length the specification asks of a name, judged on its trimmed form.
TrimmedLengthOk(name) ==
    Len(Strip(name)) >= 2 /\ Len(Strip(name)) <= 100

\* Worker w's request of this operation is validated in this step.
Validated(w, op) ==
    req[w].op = op /\ req[w].pc = "idle" /\ req'[w].pc # "idle"

Accepted(r) == r.status # 422

\* C20: a raw name is accepted, on the create and on the update path, if and
\* only if its trimmed form has 2 to 100 characters (the other fields being
\* valid); the accepted name is the trimmed form, so it has 2 to 100
\* characters, and it is the value that is stored.
C20_NameLengthOnTrimmed ==
    [][\A w \in Workers :
          /\ Validated(w, "create")
                => LET raw == Val(req[w].employee)
                   IN  /\ Accepted(req'[w])
                          <=> /\ TrimmedLengthOk(raw.name)
                              /\ EmployeeIdOk(raw.employee_id)
                              /\ AgeOk(raw.age)
                              /\ DepartmentOk(raw.department)
                       /\ Accepted(req'[w])
                          => /\ Val(req'[w].employee).name = Strip(raw.name)
                             /\ TrimmedLengthOk(Val(req'[w].employee).name)
          /\ Validated(w, "update")
                => LET raw == Sent(Val(req[w].employee_update))
                   IN  /\ Accepted(req'[w])
                          <=> /\ IsNone(raw.name) \/ TrimmedLengthOk(Val(raw.name))
                              /\ UpdateAgeOk(raw.age)
                              /\ UpdateDepartmentOk(raw.department)
                       /\ Accepted(req'[w]) /\ ~IsNone(raw.name)
                          => /\ Val(req'[w].employee_update).name
                                    = Some(Strip(Val(raw.name)))
                             /\ TrimmedLengthOk(Strip(Val(raw.name)))
          /\ req[w].op = "create" /\ req[w].pc = "insert" /\ req'[w].status = 201
                => store'[Len(store')].name = Val(req[w].employee).name
          /\ UpdateWrites(w) /\ store' # store
                /\ ~IsNone(Val(req[w].employee_update).name)
                => RecordOf(store', req[w].employee_id).name
                       = Val(Val(req[w].employee_update).name)]_vars

-----------------------------------------------------------------------------
(* Trimming of names *)

\* t is raw without its leading and trailing whitespace: raw is a run of
\* whitespace, then t, then a run of whitespace, and t neither begins nor
\* ends with whitespace.
IsTrimOf(t, raw) ==
    /\ Len(t) <= Len(raw)
    /\ \E a \in 0 .. (Len(raw) - Len(t)) :
          /\ SubSeq(raw, a + 1, a + Len(t)) = t
          /\ \A i \in 1 .. a : raw[i] \in Whitespace
          /\ \A i \in (a + Len(t) + 1) .. Len(raw) : raw[i] \in Whitespace
    /\ t # << >> => t[1] \notin Whitespace /\ t[Len(t)] \notin Whitespace

WhitespaceOnly(raw) == \A i \in DOMAIN raw : raw[i] \in Whitespace

\* C21: on the create and on the update path an accepted name is the name
\* as sent without its leading and trailing whitespace, and a name that is
\* empty or whitespace only is rejected; no stored name is empty, begins
\* with whitespace or ends with it.
C21_NameTrimmed ==
    [][/\ \A w \in Workers :
             /\ Validated(w, "create")
                   => LET raw == Val(req[w].employee).name
                      IN  /\ WhitespaceOnly(raw) => ~Accepted(req'[w])
                          /\ Accepted(req'[w])
                                => IsTrimOf(Val(req'[w].employee).name, raw)
             /\ Validated(w, "update") /\ ~IsNone(Sent(Val(req[w].employee_update)).name)
                   => LET raw == Val(Sent(Val(req[w].employee_update)).name)
                      IN  /\ WhitespaceOnly(raw) => ~Accepted(req'[w])
                          /\ Accepted(req'[w])
                                => IsTrimOf(Val(Val(req'[w].employee_update).name), raw)
       /\ \A i \in DOMAIN store' :
             /\ store'[i].name # << >>
             /\ store'[i].name[1] \notin Whitespace
             /\ store'[i].name[Len(store'[i].name)] \notin Whitespace]_vars

\* "  Jane  " was sent by a Create and "\tJo\n" by an Update of the record:
\* the Create answered with "Jane", the record now holds "Jo".
C21_Witness ==
    \E w, v \in Workers :
        /\ DoneOp(req[w], "create") /\ req[w].status = 201
        /\ req[w].data[1].name = <<"J", "a", "n", "e">>
        /\ req[v].op = "update" /\ req[v].pc = "reread"
        /\ Len(store) = 1
        /\ store[1].name = <<"J", "o">>

-----------------------------------------------------------------------------
(* The age range *)

\* C22: an integer age is accepted on the create path and on the update
\* path if and only if it lies in 18 .. 100 (the other fields being valid),
\* and is kept as sent; no stored record has an age outside 18 .. 100.
C22_AgeRange ==
    [][/\ \A w \in Workers :
             /\ Validated(w, "create")
                   => LET raw == Val(req[w].employee)
                      IN  /\ /\ raw.age \in 18 .. 100
                             /\ NameOk(raw.name)
                             /\ EmployeeIdOk(raw.employee_id)
                             /\ DepartmentOk(raw.department)
                             => /\ Accepted(req'[w])
                                /\ Val(req'[w].employee).age = raw.age
                          /\ raw.age \notin 18 .. 100 => ~Accepted(req'[w])
             /\ Validated(w, "update") /\ ~IsNone(Sent(Val(req[w].employee_update)).age)
                   => LET raw == Sent(Val(req[w].employee_update))
                      IN  /\ /\ Val(raw.age) \in 18 .. 100
                             /\ UpdateNameOk(raw.name)
                             /\ UpdateDepartmentOk(raw.department)
                             => /\ Accepted(req'[w])
                                /\ Val(req'[w].employee_update).age = raw.age
                          /\ Val(raw.age) \notin 18 .. 100 => ~Accepted(req'[w])
       /\ \A i \in DOMAIN store' : store'[i].age \in 18 .. 100]_vars

\* A record created with age 18 was updated to age 100.
C22_Witness ==
    \E w, v \in Workers :
        /\ DoneOp(req[w], "create") /\ req[w].status = 201
        /\ req[w].data[1].age = 18
        /\ DoneOp(req[v], "update") /\ req[v].status = 200
        /\ req[v].data # << >> /\ req[v].data[1].age = 100
        /\ Len(store) = 1 /\ store[1].age = 100

-----------------------------------------------------------------------------
(* The closed set of departments *)

\* The labels that section 3 of the specification lists, in its order.
SpecifiedLabels ==
    << "Engineering", "Marketing", "Finance", "Human Resources", "Sales",
       "Operations", "Information Technology", "Legal", "Customer Service",
       "Research and Development" >>

IsLabel(d) == \E i \in DOMAIN SpecifiedLabels : SpecifiedLabels[i] = d

-----------------------------------------------------------------------------
(* Creates of distinct ids *)

\* Worker w's Create was valid, its id was not stored when it started, no
\* Create of the same id ran alongside it, and its insert_one did not fail.
CreatedAlone(w) ==
    /\ DoneOp(req[w], "create") /\ req[w].status # 422
    /\ req[w].absent0 /\ req[w].rivals = {}
    /\ ~req[w].failed

\* C24: valid Creates of pairwise distinct ids that the store does not hold,
\* in any interleaving and without store failure, all end in success (201);
\* the store then holds exactly one record for each of them, the one the
\* response shows, as long as no later request changes it.
C24_DistinctCreatesSucceed ==
    \A w \in Workers :
        CreatedAlone(w)
            => /\ req[w].status = 201
               /\ req[w].kind = "Created"
               /\ ~req[w].touched
                     => /\ Cardinality({i \in DOMAIN store :
                               store[i].employee_id = req[w].employee_id}) = 1
                        /\ <<Pop(RecordOf(store, req[w].employee_id), "_id")>>
                               = req[w].data

\* Two Creates of different ids have both succeeded and the store holds the
\* two records.
C24_Witness ==
    \E w, v \in Workers :
        /\ CreatedAlone(w) /\ CreatedAlone(v)
        /\ req[w].employee_id # req[v].employee_id
        /\ ~req[w].touched /\ ~req[v].touched
        /\ Len(store) = 2

-----------------------------------------------------------------------------
(* No retries *)

\* C25: no operation retries a store call.  The step in which a store call
\* of a request fails issues that one call, ends the request and makes the
\* failure its outcome (500); a request never issues more calls than its
\* handler has, one per step; and a request with a failed call issues no
\* further call: what its worker does next is a new request.
C25_NoRetry ==
    [][\A w \in Workers :
          /\ req'[w].failed /\ ~req[w].failed
                => /\ Len(req'[w].calls) = Len(req[w].calls) + 1
                   /\ req'[w].pc = "done"
                   /\ req'[w].status = 500
                   /\ req'[w].kind = "InternalError"
          /\ req'[w].calls # req[w].calls /\ req'[w].calls # << >>
                => /\ ~req[w].failed
                   /\ InFlight(req[w])
                   /\ SubSeq(req'[w].calls, 1, Len(req[w].calls)) = req[w].calls
                   /\ Len(req'[w].calls) = Len(req[w].calls) + 1
                   /\ Len(req'[w].calls) <= Len(StoreCalls(req[w].op))
          /\ req[w].failed /\ req'[w] # req[w]
                => /\ ~InFlight(req[w])
                   /\ req'[w].calls = << >>
                   /\ ~req'[w].failed]_vars

\* A Delete whose delete_one failed was answered while the record is still
\* stored, and a Get whose find_one failed.
C25_Witness ==
    \E w, v \in Workers :
        /\ req[w].op = "delete" /\ req[w].failed /\ req[w].pc = "done"
        /\ req[w].calls = <<"find_one", "delete_one">>
        /\ req[w].employee_id \in StoredIds(store)
        /\ req[v].op = "get" /\ req[v].failed /\ req[v].pc = "done"
        /\ req[v].calls = <<"find_one">>

-----------------------------------------------------------------------------
(* A listing next to writers *)

Min(a, b) == IF a < b THEN a ELSE b

Max(a, b) == IF a < b THEN b ELSE a

\* C26: every answered List is consistent with one snapshot of the store:
\* it carries min(limit, max(0, total_count - skip)) records, also when
\* Creates or Deletes run between its count and its fetch.
C26_ListSnapshot ==
    \A w \in Workers :
        DoneOp(req[w], "list") /\ req[w].status = 200
            => Len(req[w].data) =
                   Min(req[w].limit,
                       Max(0, req[w].total_count - (req[w].page - 1) * req[w].limit))

-----------------------------------------------------------------------------
(* Deletes of one id *)

\* Worker w's Delete, or Create, ends in success in this step.
DeleteSucceeds(w) ==
    req[w].op = "delete" /\ req[w].pc = "remove" /\ req'[w].status = 200

CreateSucceeds(w) ==
    req[w].op = "create" /\ req[w].pc = "insert" /\ req'[w].status = 201

\* C27: of the Deletes of one id that run alongside each other at most one
\* ends in success, and an id has never more successful Deletes than
\* successful Creates: a Delete succeeds only in a step that removes the one
\* stored record of its id, a record leaves the store only in such a step and
\* enters it only in the successful step of a Create of its id, and of two
\* successful Deletes of one id the earlier one has seen the record stored
\* again before the later one removed it.
C27_DeleteAtMostOnce ==
    [][/\ \A w \in Workers :
             /\ DeleteSucceeds(w)
                   => /\ req[w].employee_id \in StoredIds(store)
                      /\ req[w].employee_id \notin StoredIds(store')
                      /\ Len(store') = Len(store) - 1
             /\ req[w].op = "delete" /\ Steps(w) /\ ~DeleteSucceeds(w)
                   => store' = store
       /\ Len(store') < Len(store) => \E w \in Workers : DeleteSucceeds(w)
       /\ Len(store') > Len(store)
             => /\ Len(store') = Len(store) + 1
                /\ \E w \in Workers :
                      /\ CreateSucceeds(w)
                      /\ store'[Len(store')].employee_id = req[w].employee_id
                      /\ req[w].employee_id \notin StoredIds(store)
       /\ \A w, v \in Workers :
             /\ w # v
             /\ DoneOp(req'[w], "delete") /\ req'[w].status = 200
             /\ DoneOp(req'[v], "delete") /\ req'[v].status = 200
             /\ req'[w].employee_id = req'[v].employee_id
             => req'[w].touched \/ req'[v].touched]_vars

\* Two Deletes of one id both found the record; one removed it and ended in
\* success, the other one's delete_one removed nothing.
C27_Witness ==
    \E w, v \in Workers :
        /\ DoneOp(req[w], "delete") /\ req[w].status = 200 /\ ~req[w].touched
        /\ DoneOp(req[v], "delete") /\ req[v].status # 200 /\ ~req[v].failed
        /\ req[v].calls = <<"find_one", "delete_one">>
        /\ req[w].employee_id = req[v].employee_id

-----------------------------------------------------------------------------
(* Requests that end in InternalError *)

-----------------------------------------------------------------------------
(* Null fields of an Update *)

\* The keys a JSON body gives a value.
ValueKeys(body) == {k \in DOMAIN body : ~IsNone(body[k])}

\* No field of a stored record is null.
NoNullField(doc) ==
    /\ doc.employee_id # None
    /\ doc.name # None
    /\ doc.age \in Int
    /\ doc.department \in DepartmentValues

\* C29: a field that an Update body gives as null is treated as a field the
\* body leaves out.  A null is never the reason of a rejection and reaches
\* the handler as None, as an absent field does; an Update all of whose
\* fields are null or absent, sent for a stored id, ends in NoFieldsProvided
\* and leaves the store alone (when no store call fails); an Update that
\* writes leaves the fields it got as null or not at all as they were; and no
\* stored field is ever null.
C29_NullIsAbsent ==
    [][/\ \A w \in Workers :
             /\ Validated(w, "update")
                   => LET body == Val(req[w].employee_update)
                      IN  /\ ValueKeys(body) = {} => Accepted(req'[w])
                          /\ req'[w].nulls = DOMAIN body \ ValueKeys(body)
                          /\ Accepted(req'[w])
                                => \A k \in UpdateKeys :
                                      IsNone(Val(req'[w].employee_update)[k])
                                          <=> k \notin ValueKeys(body)
             /\ ( /\ req[w].op = "update" /\ req[w].pc = "find" /\ Steps(w)
                  /\ \A k \in UpdateKeys : IsNone(Val(req[w].employee_update)[k])
                  /\ req[w].employee_id \in StoredIds(store)
                  /\ ~req'[w].failed )
                   => /\ req'[w].status = 400
                      /\ req'[w].kind = "NoFieldsProvided"
                      /\ store' = store
             /\ ( UpdateWrites(w) /\ req[w].employee_id \in StoredIds(store) )
                   => \A k \in UpdateKeys :
                         IsNone(Val(req[w].employee_update)[k])
                             => RecordOf(store', req[w].employee_id)[k]
                                    = RecordOf(store, req[w].employee_id)[k]
       /\ \A i \in DOMAIN store' : NoNullField(store'[i])]_vars

\* An Update that gave its name as null and another field a value has
\* written, and the stored record has a name.
C29_Witness ==
    \E w \in Workers :
        /\ DoneOp(req[w], "update") /\ req[w].status = 200
        /\ "name" \in req[w].nulls /\ req[w].wrote
        /\ req[w].employee_id \in StoredIds(store)
        /\ RecordOf(store, req[w].employee_id).name # None

\* An Update all of whose fields were null or absent, with a null among
\* them, has ended in NoFieldsProvided for a stored id.
C29_WitnessNoFields ==
    \E w \in Workers :
        /\ DoneOp(req[w], "update") /\ req[w].kind = "NoFieldsProvided"
        /\ req[w].nulls # {} /\ req[w].nulls # UpdateKeys
        /\ req[w].employee_id \in StoredIds(store)

\* C29 as stated, without the condition on the id: every Update all of whose
\* fields are null or absent ends in NoFieldsProvided when no store call
\* fails.
C29_NullsEndInNoFields ==
    [][\A w \in Workers :
          ( /\ req[w].op = "update" /\ req[w].pc = "find" /\ Steps(w)
            /\ \A k \in UpdateKeys : IsNone(Val(req[w].employee_update)[k])
            /\ ~req'[w].failed )
             => req'[w].kind = "NoFieldsProvided"]_vars

-----------------------------------------------------------------------------
(* Operations that read, and requests that are refused *)

\* The history fields that the steps of other workers update.
OwnPart(r) == [r EXCEPT !.touched = FALSE, !.rivals = {}]

\* The step is one of worker w's request.
Acts(w) == OwnPart(req'[w]) # OwnPart(req[w])

ReadOnlyOps == {"get", "list", "departments", "health"}

Refusals == {"NotFound", "Conflict", "NoFieldsProvided"}

\* C30: no step of a Get, a List, the department listing or the health check
\* changes the store, whatever the request's outcome; the step in which a
\* request ends in NotFound, Conflict or NoFieldsProvided leaves the store as
\* it is, and no earlier store call of that request changed it.
C30_ReadsAndRefusalsWriteNothing ==
    [][\A w \in Workers :
          /\ ( Acts(w) /\ req'[w].op \in ReadOnlyOps ) => store' = store
          /\ ( Acts(w) /\ req'[w].kind \in Refusals )
                => ( store' = store /\ ~req'[w].wrote )
          /\ req'[w].op \in ReadOnlyOps => ~req'[w].wrote]_vars

\* With a record stored, one worker's Create was refused as a Conflict and the
\* other's health check found the database unhealthy.
C30_Witness ==
    \E w, v \in Workers :
        /\ DoneOp(req[w], "create") /\ req[w].kind = "Conflict"
        /\ DoneOp(req[v], "health") /\ req[v].data[1].database = "unhealthy"
        /\ store # << >>

\* Each read-only operation has been answered with a record stored: a Get
\* with an error, and a List.
C30_WitnessReads ==
    \E w, v \in Workers :
        /\ DoneOp(req[w], "get") /\ req[w].failed
        /\ DoneOp(req[v], "list") /\ req[v].status = 200
        /\ store # << >>

-----------------------------------------------------------------------------
(* disconnect() and the connect() after it *)

\* The step is a call of disconnect().
Disconnects ==
    db_manager'.log = Append(db_manager.log, "disconnect")

HandlesCleared(m) == IsNone(m.client) /\ IsNone(m.database) /\ IsNone(m.collection)

SameHandles(m, n) ==
    m.client = n.client /\ m.database = n.database /\ m.collection = n.collection

\* The n-th event of the history is a get_collection() that follows a
\* disconnect() with no successful connect() in between, and no connect() is
\* in progress when it is called.
GetAfterDisconnect(log, n) ==
    /\ log[n] \in {"get_raised", "get_returned"}
    /\ NoConnectRunning(Before(log, n))
    /\ \E j \in 1 .. (n - 1) :
          /\ log[j] = "disconnect"
          /\ \A i \in (j + 1) .. (n - 1) : log[i] # "connect_ok"

\* The n-th event is a get_collection() that follows a successful connect()
\* with no disconnect() after it.
GetAfterConnect(log, n) ==
    /\ log[n] \in {"get_raised", "get_returned"}
    /\ \E j \in 1 .. (n - 1) :
          /\ log[j] = "connect_ok"
          /\ \A i \in (j + 1) .. (n - 1) : log[i] # "disconnect"

\* The parts of the lifecycle that concern disconnect() itself and the
\* connect() that succeeds: disconnect() leaves the three handles cleared;
\* called without a client it changes no handle; every call of it returns; a
\* get_collection() after a successful connect() that no disconnect()
\* followed returns the handle.
DisconnectClearsAndReconnectWorks ==
    [][/\ Disconnects
             => /\ HandlesCleared(db_manager')
                /\ IsNone(db_manager.client) => SameHandles(db_manager', db_manager)
                /\ db_manager'.pc = db_manager.pc
       /\ \A n \in DOMAIN db_manager'.log :
             GetAfterConnect(db_manager'.log, n)
                 => db_manager'.log[n] = "get_returned"]_vars

\* C31: after disconnect() the client, database and collection handles are
\* all cleared and get_collection() raises until a later connect() has
\* succeeded; disconnect() called when there is no connection changes
\* nothing; after a connect() that succeeded, with no disconnect() since,
\* get_collection() returns the handle.
C31_ConnectionLifecycle ==
    [][/\ Disconnects
             => /\ HandlesCleared(db_manager')
                /\ IsNone(db_manager.client) => SameHandles(db_manager', db_manager)
       /\ \A n \in DOMAIN db_manager'.log :
             /\ GetAfterDisconnect(db_manager'.log, n)
                   => db_manager'.log[n] = "get_raised"
             /\ GetAfterConnect(db_manager'.log, n)
                   => db_manager'.log[n] = "get_returned"]_vars

\* A connection was made and closed, a second disconnect() followed, and
\* get_collection() raised after it.
DisconnectedTwice ==
    SubSeq(db_manager.log, 1, Len(db_manager.log))
        = <<"connect", "connect_ok", "disconnect", "disconnect", "get_raised">>

\* A connection was made, closed and made again, and get_collection()
\* returned the handle.
Reconnected ==
    db_manager.log
        = <<"connect", "connect_ok", "disconnect", "connect", "connect_ok",
            "get_returned">>

=============================================================================
